---- MODULE Spec2Model ----
(***************************************************************************)
(* A model of comet/cli/score.py: one invocation of score_command.  The    *)
(* command is straight-line code, so the state is the parsed configuration *)
(* (cfg, mutated by the dataset resolution), the values read from the      *)
(* files, the records built from them, and the position of the run (pc).   *)
(* Every call into a collaborator (sacrebleu, the model library, the file  *)
(* system) and every line printed is appended to `events`, in order.       *)
(*                                                                         *)
(* Strings whose contents the code inspects are sequences of tokens:       *)
(*   - a -d value is the sequence of its ":"-separated pieces with the     *)
(*     ":" kept as tokens  ("wmt20:en-de" is <<"wmt20", ":", "en-de">>);   *)
(*   - a model identifier is the sequence of its "-"-separated pieces      *)
(*     ("wmt20-comet-qe-da" is <<"wmt20", "comet", "qe", "da">>), so the   *)
(*     substring test `"comet-qe" in cfg.model` is a test for the          *)
(*     contiguous tokens <<"comet", "qe">>.                                *)
(* An Optional value is <<>> (None) or <<x>>.                              *)
(***************************************************************************)
EXTENDS Integers, Sequences, FiniteSets, TLC

VARIABLES
    pc,            \* position of the run in score_command
    argv,          \* the options as given on the command line (never changed)
    cfg,           \* the namespace parse_args returned (lines 119-120 assign to it)
    sources,       \* line 145
    translations,  \* line 148
    references,    \* line 154
    data,          \* line 157, then augmented by lines 165-166 / 175
    predictions,   \* what predict returned (scores, sys_score)
    predict_args,  \* the arguments predict was called with, as they were at the call
    i,             \* enumerate index of the printing loop
    events,        \* calls made and lines printed, in order
    json_file,     \* <<>> or <<the list json.dump wrote>>
    outcome,       \* running | success | usage_error | exit1 | uncaught
    message,       \* which parser.error message was given
    failure        \* <<>> or <<[site, exc]>>: the failure a collaborator raised

vars == <<pc, argv, cfg, sources, translations, references, data, predictions,
          predict_args, i, events, json_file, outcome, message, failure>>

----------------------------------------------------------------------------
(* Bounds and input sets *)

\* the largest number of lines a file holds
MaxLines == 2

None == <<>>
Some(x) == <<x>>

_REFLESS_MODELS == { <<"comet", "qe">> }

\* keys of available_metrics used as --model values
available_metrics ==
    { <<"wmt20", "comet", "da">>,
      <<"wmt20", "comet", "qe", "da">>,
      <<"wmt21", "comet", "qe", "mqm">> }

\* --model values: the metrics, and a checkpoint path
Models == available_metrics \cup { <<"checkpoints/model.ckpt">> }

\* -d values
DatasetArgs ==
    { <<"wmt20", ":", "en-de">>,
      <<"wmt20", ":", "dev", ":", "en-de">>,
      <<"wmt20">>,
      <<>> }

\* the (testset, langpair) pairs the benchmark fetcher has files for
KnownDatasets == { << <<"wmt20">>, <<"en-de">> >> }

\* --to_json values as typed on the command line; <<>> is "not given"
ToJsonArgs == { None, Some("true"), Some("false"), Some("out.json") }

ArgvSet ==
    [ sources : {None, Some("src.txt")},
      translations : {None, Some("mt.txt")},
      references : {None, Some("ref.txt")},
      sacrebleu_dataset : {None} \cup { Some(d) : d \in DatasetArgs },
      to_json : ToJsonArgs,
      model : Models,
      mc_dropout : BOOLEAN,
      disable_cache : BOOLEAN,
      disable_length_batching : BOOLEAN ]

NoArgv ==
    [ sources |-> None, translations |-> None, references |-> None,
      sacrebleu_dataset |-> None, to_json |-> None,
      model |-> <<"wmt20", "comet", "da">>, mc_dropout |-> FALSE,
      disable_cache |-> FALSE, disable_length_batching |-> FALSE ]

----------------------------------------------------------------------------
(* Pure helpers *)

Min(a, b) == IF a <= b THEN a ELSE b

\* Python's `sub in s` on token sequences
Contains(s, sub) ==
    \E k \in 0..(Len(s) - Len(sub)) :
        \A j \in 1..Len(sub) : s[k + j] = sub[j]

\* the type Union[bool, str] of --to_json, default False
ParseToJson(raw) ==
    IF raw = None THEN [type |-> "bool", b |-> FALSE, s |-> ""]
    ELSE IF raw[1] = "true" THEN [type |-> "bool", b |-> TRUE, s |-> ""]
    ELSE IF raw[1] = "false" THEN [type |-> "bool", b |-> FALSE, s |-> ""]
    ELSE [type |-> "str", b |-> FALSE, s |-> raw[1]]

ParseArgv(a) == [a EXCEPT !.to_json = ParseToJson(a.to_json)]

\* s.rsplit(":", maxsplit=1)
RSplit(s) ==
    LET colons == { k \in 1..Len(s) : s[k] = ":" }
    IN  IF colons = {} THEN << s >>
        ELSE LET k == CHOOSE x \in colons : \A y \in colons : y <= x
             IN  << SubSeq(s, 1, k - 1), SubSeq(s, k + 1, Len(s)) >>

\* a line as fp.readlines() returns it, and line.strip()
RawLine(path, n) == [file |-> path, line |-> n, ws |-> TRUE]
Strip(l) == [l EXCEPT !.ws = FALSE]
ReadLines(path, n) == [k \in 1..n |-> Strip(RawLine(path, k))]

Event(e, n) == [ev |-> e, i |-> n]
Call(e) == Event(e, 0)
Called(e) == \E k \in 1..Len(events) : events[k].ev = e

----------------------------------------------------------------------------
(* The decisions score_command takes *)

\* SourcesMissing with the test of -d inverted
SourcesMissingInverted(c) == c.sources = None /\ c.sacrebleu_dataset # None

\* line 110
SourcesMissing(c) == c.sources = None /\ c.sacrebleu_dataset = None

\* DatasetConflict with `and` in place of `or`
DatasetConflictBoth(c) == c.references # None /\ c.sources # None

\* line 114
DatasetConflict(c) == c.references # None \/ c.sources # None

\* line 118: the unpacking `testset, langpair = ...` needs exactly two values
UnpackFails(parts) == Len(parts) # 2

\* IsRefless with the looser substring "comet"
IsReflessLoose(model) == Contains(model, <<"comet">>)

\* line 129: any([i in cfg.model for i in _REFLESS_MODELS])
IsRefless(model) == \E r \in _REFLESS_MODELS : Contains(model, r)

\* ReferencesMissing without the `not`
ReferencesMissingNoNot(c) == c.references = None /\ IsRefless(c.model)

\* lines 128-130
ReferencesMissing(c) == c.references = None /\ ~IsRefless(c.model)

\* line 135
NeedsDownload(c) == c.model \in available_metrics

\* SkipsReferences with the looser substring "comet"
SkipsReferencesLoose(model) == Contains(model, <<"comet">>)

\* line 150
SkipsReferences(model) == Contains(model, <<"comet", "qe">>)

\* lines 161 and 171: the value passed as predict's length_batching
LengthBatchingArg(c) == c.disable_length_batching

\* line 178
WritesJson(c) == c.to_json.type = "str"

\* ExceptHandler without the `except ValueError` clause
ExceptHandlerNoValueError(exc) ==
    CASE exc \in {"ValueError", "Exception"} ->
            [outcome |-> "exit1", message |-> "SacreBLEU error"]
      [] OTHER -> [outcome |-> "uncaught", message |-> ""]

\* ExceptHandler without the `except Exception` clause
ExceptHandlerNoException(exc) ==
    CASE exc = "ValueError" -> [outcome |-> "usage_error", message |-> "format"]
      [] OTHER -> [outcome |-> "uncaught", message |-> ""]

\* lines 121-126: what the try block's handlers make of an exception.
\* "Exception" stands for any Exception other than ValueError,
\* "KeyboardInterrupt" for a BaseException that is no Exception.
ExceptHandler(exc) ==
    CASE exc = "ValueError" -> [outcome |-> "usage_error", message |-> "format"]
      [] exc = "Exception" -> [outcome |-> "exit1", message |-> "SacreBLEU error"]
      [] OTHER -> [outcome |-> "uncaught", message |-> ""]

\* line 157: [dict(zip(data, t)) for t in zip(*data.values())]
ZipData(src, mt, ref, withRef) ==
    LET n == IF withRef THEN Min(Min(Len(src), Len(mt)), Len(ref))
             ELSE Min(Len(src), Len(mt))
    IN  [k \in 1..n |->
            IF withRef THEN [src |-> src[k], mt |-> mt[k], ref |-> ref[k]]
            ELSE [src |-> src[k], mt |-> mt[k]]]

\* model.predict: one score (and, with MC dropout, one variance) per record,
\* and a system score
PredictResult(d, mc) ==
    [ scores |-> [k \in 1..Len(d) |-> [score |-> k]],
      stds |-> IF mc THEN [k \in 1..Len(d) |-> [std |-> k]] ELSE <<>>,
      sys_score |-> "sys_score" ]

\* lines 163 and 173: the sequences the printing loop zips
LoopLength(p, d, mc) ==
    IF mc THEN Min(Min(Len(p.scores), Len(p.stds)), Len(d))
    ELSE Min(Len(p.scores), Len(d))

\* SegmentLine with enumerate starting at 1
SegmentLineFromOne(n, mc) ==
    Event(IF mc THEN "Segment+variance" ELSE "Segment", n + 1)

\* lines 164 and 174: the line printed for the (n+1)-th element, enumerate from 0
SegmentLine(n, mc) == Event(IF mc THEN "Segment+variance" ELSE "Segment", n)

\* lines 165-166 and 175
Augment(sample, p, k, mc) ==
    IF mc THEN sample @@ ("COMET" :> p.scores[k]) @@ ("variance" :> p.stds[k])
    ELSE sample @@ ("COMET" :> p.scores[k])

FetchExceptions == {"ValueError", "Exception", "KeyboardInterrupt"}

----------------------------------------------------------------------------
(* The run *)

Init ==
    /\ pc = "parse"
    /\ argv = NoArgv
    /\ cfg = ParseArgv(NoArgv)
    /\ sources = <<>>
    /\ translations = <<>>
    /\ references = <<>>
    /\ data = <<>>
    /\ predictions = PredictResult(<<>>, FALSE)
    /\ predict_args = None
    /\ i = 0
    /\ events = <<>>
    /\ json_file = None
    /\ outcome = "running"
    /\ message = ""
    /\ failure = None

\* the run ends: parser.error, sys.exit, an exception leaving score_command,
\* or the function returning
Stop(out, msg) ==
    /\ pc' = "done"
    /\ outcome' = out
    /\ message' = msg

\* a collaborator raises exc and nothing in score_command catches it
Raise(site, exc) ==
    /\ failure' = Some([site |-> site, exc |-> exc])
    /\ Stop("uncaught", "")

Goto(l) ==
    /\ pc' = l
    /\ UNCHANGED <<outcome, message>>

\* lines 107-108
ParseArgs ==
    /\ pc = "parse"
    /\ \/ \E a \in ArgvSet :
             /\ argv' = a
             /\ cfg' = ParseArgv(a)
             /\ events' = Append(events, Call("seed_everything"))
             /\ Goto("check_sources")
       \/ \* parse_args rejects the command line (a path that is no readable
          \* file, a value of the wrong type)
          /\ Stop("usage_error", "parse")
          /\ UNCHANGED <<argv, cfg, events>>
    /\ UNCHANGED <<sources, translations, references, data, predictions,
                   predict_args, i, json_file, failure>>

\* lines 110-111
CheckSources ==
    /\ pc = "check_sources"
    /\ IF SourcesMissing(cfg)
       THEN Stop("usage_error", "need_source")
       ELSE Goto("check_dataset")
    /\ UNCHANGED <<argv, cfg, sources, translations, references, data,
                   predictions, predict_args, i, events, json_file, failure>>

\* lines 113-118, and the handler of line 121 for the unpacking
CheckDataset ==
    /\ pc = "check_dataset"
    /\ IF cfg.sacrebleu_dataset = None
       THEN Goto("check_references") /\ UNCHANGED failure
       ELSE IF DatasetConflict(cfg)
       THEN Stop("usage_error", "conflict") /\ UNCHANGED failure
       ELSE IF UnpackFails(RSplit(cfg.sacrebleu_dataset[1]))
       THEN LET h == ExceptHandler("ValueError")
            IN  /\ Stop(h.outcome, h.message)
                /\ failure' = Some([site |-> "rsplit", exc |-> "ValueError"])
       ELSE Goto("get_source_file") /\ UNCHANGED failure
    /\ UNCHANGED <<argv, cfg, sources, translations, references, data,
                   predictions, predict_args, i, events, json_file>>

\* an exception raised inside the try block of lines 117-120
Caught(site, exc) ==
    LET h == ExceptHandler(exc)
    IN  /\ failure' = Some([site |-> site, exc |-> exc])
        /\ Stop(h.outcome, h.message)
        /\ events' =
             IF h.outcome = "exit1"
             THEN events \o << Call(site), Call("stderr: SacreBLEU error") >>
             ELSE Append(events, Call(site))

\* line 119
GetSourceFile ==
    /\ pc = "get_source_file"
    /\ LET parts == RSplit(cfg.sacrebleu_dataset[1])
       IN  \/ /\ << parts[1], parts[2] >> \in KnownDatasets
              /\ cfg' = [cfg EXCEPT !.sources = Some("sacrebleu/src.txt")]
              /\ events' = Append(events, Call("get_source_file"))
              /\ Goto("get_reference_files")
              /\ UNCHANGED failure
           \/ \E exc \in FetchExceptions :
                 /\ Caught("get_source_file", exc)
                 /\ UNCHANGED cfg
    /\ UNCHANGED <<argv, sources, translations, references, data, predictions,
                   predict_args, i, json_file>>

\* line 120
GetReferenceFiles ==
    /\ pc = "get_reference_files"
    /\ \/ /\ cfg' = [cfg EXCEPT !.references = Some("sacrebleu/ref.txt")]
          /\ events' = Append(events, Call("get_reference_files"))
          /\ Goto("check_references")
          /\ UNCHANGED failure
       \/ \E exc \in FetchExceptions :
             /\ Caught("get_reference_files", exc)
             /\ UNCHANGED cfg
    /\ UNCHANGED <<argv, sources, translations, references, data, predictions,
                   predict_args, i, json_file>>

\* lines 128-131
CheckReferences ==
    /\ pc = "check_references"
    /\ IF ReferencesMissing(cfg)
       THEN Stop("usage_error", "need_references")
       ELSE Goto("download_model")
    /\ UNCHANGED <<argv, cfg, sources, translations, references, data,
                   predictions, predict_args, i, events, json_file, failure>>

\* lines 133-137
ResolveModel ==
    /\ pc = "download_model"
    /\ \/ /\ events' = IF NeedsDownload(cfg)
                       THEN Append(events, Call("download_model"))
                       ELSE events
          /\ Goto("load_from_checkpoint")
          /\ UNCHANGED failure
       \/ /\ NeedsDownload(cfg)
          /\ events' = Append(events, Call("download_model"))
          /\ Raise("download_model", "Exception")
    /\ UNCHANGED <<argv, cfg, sources, translations, references, data,
                   predictions, predict_args, i, json_file>>

\* lines 138-142
LoadModel ==
    /\ pc = "load_from_checkpoint"
    /\ \/ /\ events' = events \o
                 << Call("load_from_checkpoint"), Call("eval") >> \o
                 (IF ~cfg.disable_cache THEN << Call("set_embedding_cache") >>
                  ELSE <<>>)
          /\ Goto("read_sources")
          /\ UNCHANGED failure
       \/ /\ events' = Append(events, Call("load_from_checkpoint"))
          /\ Raise("load_from_checkpoint", "Exception")
    /\ UNCHANGED <<argv, cfg, sources, translations, references, data,
                   predictions, predict_args, i, json_file>>

\* lines 144-145; cfg.sources() on None is a TypeError
ReadSources ==
    /\ pc = "read_sources"
    /\ \/ /\ cfg.sources # None
          /\ \E n \in 0..MaxLines :
                sources' = ReadLines(cfg.sources[1], n)
          /\ events' = Append(events, Call("open sources"))
          /\ Goto("read_translations")
          /\ UNCHANGED failure
       \/ /\ IF cfg.sources = None
             THEN /\ Raise("open sources", "TypeError")
                  /\ UNCHANGED events
             ELSE /\ Raise("open sources", "OSError")
                  /\ events' = Append(events, Call("open sources"))
          /\ UNCHANGED sources
    /\ UNCHANGED <<argv, cfg, translations, references, data, predictions,
                   predict_args, i, json_file>>

\* lines 147-148; -t is not required, and cfg.translations() on None is a
\* TypeError
ReadTranslations ==
    /\ pc = "read_translations"
    /\ \/ /\ cfg.translations # None
          /\ \E n \in 0..MaxLines :
                translations' = ReadLines(cfg.translations[1], n)
          /\ events' = Append(events, Call("open translations"))
          /\ Goto("build_data")
          /\ UNCHANGED failure
       \/ /\ IF cfg.translations = None
             THEN /\ Raise("open translations", "TypeError")
                  /\ UNCHANGED events
             ELSE /\ Raise("open translations", "OSError")
                  /\ events' = Append(events, Call("open translations"))
          /\ UNCHANGED translations
    /\ UNCHANGED <<argv, cfg, sources, references, data, predictions,
                   predict_args, i, json_file>>

\* lines 150-157
BuildData ==
    /\ pc = "build_data"
    /\ IF SkipsReferences(cfg.model)
       THEN /\ data' = ZipData(sources, translations, <<>>, FALSE)
            /\ Goto("predict")
            /\ UNCHANGED <<references, events, failure>>
       ELSE \/ /\ cfg.references # None
               /\ \E n \in 0..MaxLines :
                     /\ references' = ReadLines(cfg.references[1], n)
                     /\ data' = ZipData(sources, translations, references', TRUE)
               /\ events' = Append(events, Call("open references"))
               /\ Goto("predict")
               /\ UNCHANGED failure
            \/ /\ IF cfg.references = None
                  THEN /\ Raise("open references", "TypeError")
                       /\ UNCHANGED events
                  ELSE /\ Raise("open references", "OSError")
                       /\ events' = Append(events, Call("open references"))
               /\ UNCHANGED <<references, data>>
    /\ UNCHANGED <<argv, cfg, sources, translations, predictions, predict_args,
                   i, json_file>>

\* lines 158-162 and 168-172: the call of model.predict
Predict ==
    /\ pc = "predict"
    /\ predict_args' = Some([ data |-> data,
                              mc_dropout |-> cfg.mc_dropout,
                              length_batching |-> LengthBatchingArg(cfg) ])
    /\ events' = Append(events, Call("predict"))
    /\ \/ /\ predictions' = PredictResult(data, cfg.mc_dropout)
          /\ i' = 0
          /\ Goto("print_segments")
          /\ UNCHANGED failure
       \/ /\ Raise("predict", "Exception")
          /\ UNCHANGED <<predictions, i>>
    /\ UNCHANGED <<argv, cfg, sources, translations, references, data,
                   json_file>>

\* lines 163-166 and 173-175: one iteration of the loop
PrintSegment ==
    /\ pc = "print_segments"
    /\ i < LoopLength(predictions, data, cfg.mc_dropout)
    /\ events' = Append(events, SegmentLine(i, cfg.mc_dropout))
    /\ data' = [data EXCEPT ![i + 1] =
                    Augment(data[i + 1], predictions, i + 1, cfg.mc_dropout)]
    /\ i' = i + 1
    /\ UNCHANGED <<pc, argv, cfg, sources, translations, references,
                   predictions, predict_args, json_file, outcome, message,
                   failure>>

\* line 177, after the loop
PrintSystem ==
    /\ pc = "print_segments"
    /\ i >= LoopLength(predictions, data, cfg.mc_dropout)
    /\ events' = Append(events, Call("System score"))
    /\ Goto("to_json")
    /\ UNCHANGED <<argv, cfg, sources, translations, references, data,
                   predictions, predict_args, i, json_file, failure>>

\* lines 178-181, and the return
ToJson ==
    /\ pc = "to_json"
    /\ IF WritesJson(cfg)
       THEN \/ /\ json_file' = Some(data)
               /\ events' = events \o
                     << Call("json.dump"), Call("Predictions saved in") >>
               /\ Stop("success", "")
               /\ UNCHANGED failure
            \/ /\ Raise("open to_json", "OSError")
               /\ UNCHANGED <<json_file, events>>
       ELSE /\ Stop("success", "")
            /\ UNCHANGED <<json_file, events, failure>>
    /\ UNCHANGED <<argv, cfg, sources, translations, references, data,
                   predictions, predict_args, i>>

Next ==
    \/ ParseArgs
    \/ CheckSources
    \/ CheckDataset
    \/ GetSourceFile
    \/ GetReferenceFiles
    \/ CheckReferences
    \/ ResolveModel
    \/ LoadModel
    \/ ReadSources
    \/ ReadTranslations
    \/ BuildData
    \/ Predict
    \/ PrintSegment
    \/ PrintSystem
    \/ ToJson

Spec == Init /\ [][Next]_vars

----------------------------------------------------------------------------
(* Vocabulary of the properties *)

\* parse_args has returned: argv holds the options of this run
Parsed == pc # "parse" /\ message # "parse"

\* the reference-free (QE) models among the --model values
ReferenceFreeModels ==
    { <<"wmt20", "comet", "qe", "da">>, <<"wmt21", "comet", "qe", "mqm">> }

\* a -d value of the form TESTSET:LANGPAIR has a ":" separator
WellFormed(d) == \E k \in 1..Len(d) : d[k] = ":"

FetchEvents == {"get_source_file", "get_reference_files"}
ModelEvents == {"download_model", "load_from_checkpoint", "eval",
                "set_embedding_cache", "predict"}
FileReads == {"open sources", "open translations", "open references"}
SegmentEvents == {"Segment", "Segment+variance"}
OutputEvents == SegmentEvents \cup
                {"System score", "json.dump", "Predictions saved in"}

NoneCalled(S) == \A k \in 1..Len(events) : events[k].ev \notin S

IsOutput(e) == e.ev \in OutputEvents
Output == SelectSeq(events, IsOutput)
SegmentCount == Cardinality({ k \in 1..Len(Output) : Output[k].ev \in SegmentEvents })

\* the states after the last validation (lines 110-131) has passed
PastValidation ==
    pc \in {"download_model", "load_from_checkpoint", "read_sources",
            "read_translations", "build_data", "predict", "print_segments",
            "to_json"}
    \/ (pc = "done" /\ outcome \in {"success", "uncaught"}
        /\ (failure # None => failure[1].site \notin FetchEvents))

----------------------------------------------------------------------------
(* C1: when -d is given together with -s or -r (or both), the run ends in  *)
(* a usage error, and neither the benchmark fetcher nor the model download, *)
(* load or predict is ever invoked.                                         *)
C1_DatasetConflictRejected ==
    (/\ Parsed
     /\ argv.sacrebleu_dataset # None
     /\ (argv.sources # None \/ argv.references # None))
    => /\ pc \in {"check_sources", "check_dataset", "done"}
       /\ pc = "done" => (outcome = "usage_error" /\ message = "conflict")
       /\ NoneCalled(FetchEvents \cup ModelEvents)

C1_Witness ==
    /\ argv.sacrebleu_dataset # None
    /\ argv.sources = None
    /\ argv.references # None
    /\ pc = "done"
    /\ outcome = "usage_error"
    /\ message = "conflict"

(* C2 as stated: with no -r and no -d, the run ends in a usage error if and *)
(* only if the model is not reference-free.                                 *)
C2_AsStated ==
    (/\ Parsed
     /\ argv.references = None
     /\ argv.sacrebleu_dataset = None
     /\ pc = "done")
    => (outcome = "usage_error" <=> argv.model \notin ReferenceFreeModels)

(* C2, amended: with -s given, no -r and no -d, the run ends in a usage     *)
(* error (the one asking for references) if and only if the model is not    *)
(* reference-free; with a reference-free model it passes the validation and *)
(* goes on to the model download and load.                                  *)
C2_MissingReferences ==
    (/\ Parsed
     /\ argv.sources # None
     /\ argv.references = None
     /\ argv.sacrebleu_dataset = None
     /\ pc \notin {"check_sources", "check_dataset", "check_references"})
    => /\ outcome = "usage_error" <=> argv.model \notin ReferenceFreeModels
       /\ outcome = "usage_error" => (pc = "done" /\ message = "need_references")
       /\ argv.model \in ReferenceFreeModels => PastValidation

C2_Witness ==
    /\ argv.sources # None
    /\ argv.references = None
    /\ argv.sacrebleu_dataset = None
    /\ argv.model \in ReferenceFreeModels
    /\ Called("predict")
    /\ outcome = "success"

(* C3: when --to_json is given (any value but false) and the run succeeds,  *)
(* the JSON written has one record per line of each input file read, in     *)
(* input order, each with its text fields and a COMET field.                *)
C3_JsonOneRecordPerSegment ==
    (/\ Parsed
     /\ argv.to_json \notin {None, Some("false")}
     /\ outcome = "success")
    => /\ json_file # None
       /\ Len(json_file[1]) = Len(sources)
       /\ Len(json_file[1]) = Len(translations)
       /\ Called("open references") => Len(json_file[1]) = Len(references)
       /\ \A k \in 1..Len(json_file[1]) :
             LET rec == json_file[1][k]
             IN  /\ {"src", "mt", "COMET"} \subseteq DOMAIN rec
                 /\ rec.src = sources[k]
                 /\ rec.mt = translations[k]
                 /\ Called("open references") =>
                        ("ref" \in DOMAIN rec /\ rec.ref = references[k])

(* C4: when neither -s nor -d is given, the run ends in the usage error     *)
(* asking for a source, before any file is read, any benchmark fetched or   *)
(* any model downloaded or loaded.                                          *)
C4_SourcesRequired ==
    (/\ Parsed
     /\ argv.sources = None
     /\ argv.sacrebleu_dataset = None)
    => /\ pc \in {"check_sources", "done"}
       /\ pc = "done" => (outcome = "usage_error" /\ message = "need_source")
       /\ NoneCalled(FileReads \cup FetchEvents \cup ModelEvents)

C4_Witness ==
    /\ Parsed
    /\ argv.sources = None
    /\ argv.sacrebleu_dataset = None
    /\ argv.references # None
    /\ pc = "done"
    /\ outcome = "usage_error"
    /\ message = "need_source"

(* C5: a -d value with no ":" separator never leaves score_command as an    *)
(* uncaught exception or another exit status: the run ends in a usage       *)
(* error, the failure of the unpacking is reported as the usage error       *)
(* stating the format, and no model is downloaded or loaded.                *)
C5_MalformedDatasetReported ==
    (/\ Parsed
     /\ argv.sacrebleu_dataset # None
     /\ ~WellFormed(argv.sacrebleu_dataset[1]))
    => /\ outcome \in {"running", "usage_error"}
       /\ pc = "done" => outcome = "usage_error"
       /\ NoneCalled(FetchEvents \cup ModelEvents)
       /\ failure # None =>
             (/\ failure[1] = [site |-> "rsplit", exc |-> "ValueError"]
              /\ outcome = "usage_error"
              /\ message = "format")
       /\ (pc = "done" /\ argv.sources = None /\ argv.references = None)
             => (failure # None /\ message = "format")

C5_Witness ==
    /\ argv.sacrebleu_dataset = Some(<<"wmt20">>)
    /\ failure = Some([site |-> "rsplit", exc |-> "ValueError"])
    /\ pc = "done"
    /\ outcome = "usage_error"
    /\ message = "format"

(* C6 as stated: every failure a collaborator raises, the benchmark fetcher *)
(* included, leaves score_command uncaught.                                 *)
C6_AsStated ==
    (/\ failure # None
     /\ failure[1].site # "rsplit"
     /\ pc = "done")
    => outcome = "uncaught"

(* C6, amended: a failure raised by the model download or load, by reading  *)
(* a file, by predict or by opening the JSON file leaves score_command      *)
(* uncaught, and no call is made twice.  A failure raised by the benchmark  *)
(* fetcher is intercepted by the try block: a ValueError becomes the usage  *)
(* error stating the format, any other Exception is printed as "SacreBLEU   *)
(* error" and becomes exit status 1, and only an exception that is no       *)
(* Exception leaves uncaught.                                               *)
C6_FailurePropagation ==
    /\ failure # None =>
          LET f == failure[1]
          IN  /\ pc = "done"
              /\ f.site \notin (FetchEvents \cup {"rsplit"}) => outcome = "uncaught"
              /\ f.site \in FetchEvents =>
                    /\ f.exc = "ValueError" =>
                          (outcome = "usage_error" /\ message = "format")
                    /\ f.exc = "Exception" =>
                          (outcome = "exit1" /\ Called("stderr: SacreBLEU error"))
                    /\ f.exc = "KeyboardInterrupt" => outcome = "uncaught"
    /\ outcome = "uncaught" => failure # None
    /\ \A j, k \in 1..Len(events) : events[j] = events[k] => j = k

C6_Witness ==
    /\ failure = Some([site |-> "get_reference_files", exc |-> "Exception"])
    /\ pc = "done"
    /\ outcome = "exit1"
    /\ Called("get_source_file")

(* C7: the output is ordered: the segment lines first, numbered 0, 1, 2,   *)
(* ... with no gap, then one "System score" line, and only then the JSON    *)
(* write and its confirmation line; once the system score is printed there  *)
(* are as many segment lines as records were passed to predict.             *)
C7_OutputOrder ==
    LET out == Output
        n == SegmentCount
    IN  /\ \A k \in 1..Len(out) :
              /\ k <= n => (out[k].ev \in SegmentEvents /\ out[k].i = k - 1)
              /\ k = n + 1 => out[k].ev = "System score"
              /\ k = n + 2 => out[k].ev = "json.dump"
              /\ k = n + 3 => out[k].ev = "Predictions saved in"
        /\ Len(out) <= n + 3
        /\ Len(out) > 0 => Called("predict")
        /\ Called("System score") => n = Len(predict_args[1].data)
        /\ outcome = "success" =>
              /\ Len(out) \in {n + 1, n + 3}
              /\ Len(out) = n + 3 <=> json_file # None

C7_Witness ==
    /\ outcome = "success"
    /\ SegmentCount = MaxLines
    /\ Len(Output) = MaxLines + 3
    /\ json_file # None

(* C8: predict is called with length batching off exactly when              *)
(* --disable_length_batching is given, and on when it is absent, with and   *)
(* without MC dropout.                                                      *)
C8_LengthBatchingFlag ==
    predict_args # None =>
        (predict_args[1].length_batching <=> ~argv.disable_length_batching)

(* C9: every record passed to predict has exactly the fields src and mt     *)
(* when the model is reference-free and src, mt and ref otherwise; for a    *)
(* reference-free model the references file is never opened, for any other  *)
(* model past the validation the references path is not None, and the       *)
(* models exempted from the references check are the models for which the   *)
(* references file is skipped.                                              *)
C9_RecordFields ==
    /\ predict_args # None =>
          \A k \in 1..Len(predict_args[1].data) :
              DOMAIN predict_args[1].data[k] =
                  IF argv.model \in ReferenceFreeModels
                  THEN {"src", "mt"}
                  ELSE {"src", "mt", "ref"}
    /\ argv.model \in ReferenceFreeModels => ~Called("open references")
    /\ (argv.model \notin ReferenceFreeModels /\ PastValidation)
          => cfg.references # None
    /\ failure # None => failure[1] # [site |-> "open references", exc |-> "TypeError"]
    /\ \A m \in Models : IsRefless(m) <=> SkipsReferences(m)

C9_Witness ==
    /\ predict_args # None
    /\ Len(predict_args[1].data) = MaxLines
    /\ argv.model \in ReferenceFreeModels
    /\ argv.references # None
    /\ DOMAIN predict_args[1].data[1] = {"src", "mt"}
    /\ outcome = "success"

(* C10: a run that ends in a usage error has not downloaded or loaded the   *)
(* model, set the embedding cache, called predict, printed a score line or  *)
(* written the JSON file; and the model download and load are reached only  *)
(* with the sources resolved and the references resolved or the model       *)
(* reference-free.                                                          *)
C10_ValidationFirst ==
    /\ outcome = "usage_error" =>
          /\ NoneCalled(ModelEvents \cup OutputEvents)
          /\ json_file = None
    /\ (\/ pc \in {"download_model", "load_from_checkpoint"}
        \/ Called("download_model")
        \/ Called("load_from_checkpoint"))
          => /\ cfg.sources # None
             /\ cfg.references # None \/ argv.model \in ReferenceFreeModels

C10_Witness ==
    /\ Called("load_from_checkpoint")
    /\ argv.sacrebleu_dataset # None
    /\ cfg.sources # None
    /\ cfg.references # None
    /\ argv.model \notin ReferenceFreeModels

====
